---- MODULE Spec2Model ----
(***************************************************************************)
(* Model of services/pascal-legacy/legacy.py: the periodic telemetry job.  *)
(* One process, one thread.  main() parses the period once, then loops:    *)
(* generate_and_insert() (read config, mkdir, name the file, generate a    *)
(* reading, write the CSV, connect, execute, commit, close), then          *)
(* time.sleep(period).  The file system, the database, the clock and the   *)
(* process environment are the program's surroundings and are state here.  *)
(*                                                                         *)
(* Units: the clock `now` counts whole seconds of local time; voltages and *)
(* temperatures are integers, in thousandths.                              *)
(***************************************************************************)
EXTENDS Integers, Sequences, FiniteSets, TLC

\* ------------------------------------------------------------------ bounds
MaxIter == 2          \* iterations of the while loop that are explored
MaxTicks == 1         \* seconds that pass between the clock reads of the iterations
RandSteps == 2000     \* random.random() is k / RandSteps for a k of 0..RandSteps
EdgeDraws == 5        \* draws explored next to each end of 0..RandSteps

\* ------------------------------------------------- constants of the program
VoltLo == 3200        \* random.uniform(3.2, 12.6), in thousandths
VoltHi == 12600
TempLo == -50000      \* random.uniform(-50.0, 80.0), in thousandths
TempHi == 80000

VARIABLES
    pc,              \* position of the single thread of control
    env,             \* os.environ: a function from the names that are set to their values
    period_seconds,  \* main's local, set once by line 93
    now,             \* the local clock, in seconds
    dirs,            \* directories that exist
    fs,              \* files: a function from existing paths to their lines
    locals,          \* generate_and_insert's frame: a function from bound names to values
    txn,             \* rows executed on the current connection and not yet committed
    db,              \* committed rows of telemetry_legacy
    open_conns,      \* connections opened and never closed by conn.close()
    stdout,          \* lines printed to sys.stdout
    stderr,          \* lines printed to sys.stderr
    iter,            \* history: iterations started
    ticks,           \* history: seconds passed outside sleep
    env_changed,     \* history: os.environ was changed while the process ran
    csv_written,     \* history: iteration and path of each successful CSV write
    committed,       \* history: the iteration that committed each row of db
    outcome          \* history: how the current call of generate_and_insert ended

vars == <<pc, env, period_seconds, now, dirs, fs, locals, txn, db, open_conns,
          stdout, stderr, iter, ticks, env_changed, csv_written, committed,
          outcome>>

\* --------------------------------------------------------------- strings
\* A string that the program parses is a sequence of characters.
Digits == <<"0", "1", "2", "3", "4", "5", "6", "7", "8", "9">>

IsDigit(c) == \E i \in 1..10 : Digits[i] = c

DigitVal(c) == (CHOOSE i \in 1..10 : Digits[i] = c) - 1

RECURSIVE DigitsVal(_)
DigitsVal(s) ==
    IF s = <<>> THEN 0
    ELSE 10 * DigitsVal(SubSeq(s, 1, Len(s) - 1)) + DigitVal(s[Len(s)])


\* int(s) of line 93: an optional sign followed by one or more decimal digits;
\* anything else raises ValueError (ok = FALSE).
int(s) ==
    LET signed == Len(s) > 0 /\ s[1] \in {"-", "+"}
        body == IF signed THEN Tail(s) ELSE s
        ok == Len(body) > 0 /\ \A i \in 1..Len(body) : IsDigit(body[i])
    IN  [ok |-> ok,
         val |-> IF ~ok THEN 0
                 ELSE IF signed /\ s[1] = "-" THEN 0 - DigitsVal(body)
                 ELSE DigitsVal(body)]

RECURSIVE IntStr(_)
\* str(n) for an integer n >= 0
IntStr(n) ==
    IF n < 10 THEN <<Digits[n + 1]>>
    ELSE IntStr(n \div 10) \o <<Digits[(n % 10) + 1]>>

\* str(x) of a float x given in thousandths: the shortest decimal that reads
\* back as x, with at least one fractional digit.
FloatStr(x) ==
    LET a == IF x < 0 THEN 0 - x ELSE x
        d1 == (a % 1000) \div 100
        d2 == (a % 100) \div 10
        d3 == a % 10
    IN  (IF x < 0 THEN <<"-">> ELSE <<>>)
        \o IntStr(a \div 1000) \o <<".", Digits[d1 + 1]>>
        \o (IF d2 = 0 /\ d3 = 0 THEN <<>>
            ELSE IF d3 = 0 THEN <<Digits[d2 + 1]>>
            ELSE <<Digits[d2 + 1], Digits[d3 + 1]>>)

\* ------------------------------------------------------------ environment
EnvNames == {"CSV_OUT_DIR", "PGHOST", "PGPORT", "PGUSER", "PGPASSWORD",
             "PGDATABASE", "GEN_PERIOD_SEC"}

\* os.environ.get(name, default)
get_env(name, default) == IF name \in DOMAIN env THEN env[name] ELSE default

\* f with name bound to v (a dict assignment, a file created or replaced)
Put(f, name, v) == [k \in DOMAIN f \cup {name} |-> IF k = name THEN v ELSE f[k]]

\* Values of GEN_PERIOD_SEC the process may be started with (besides unset).
StartPeriods == {<<"0">>, <<"-", "1">>, <<"x">>}

\* The value a variable is changed to while the process runs.
OtherValue(name) ==
    CASE name = "CSV_OUT_DIR" -> "/tmp/t"
      [] name = "PGHOST" -> "localhost"
      [] name = "PGPORT" -> "5433"
      [] name = "PGUSER" -> "tester"
      [] name = "PGPASSWORD" -> "secret"
      [] name = "PGDATABASE" -> "testdb"
      [] name = "GEN_PERIOD_SEC" -> <<"2">>

\* ------------------------------------------------------------------ clock
\* datetime.now().strftime(fmt): the fields of the local time t.  Ymd is the
\* day number, which stands for the calendar date it determines.
strftime(fmt, t) ==
    [fmt |-> fmt,
     Ymd |-> t \div 86400,
     H |-> (t % 86400) \div 3600,
     M |-> (t % 3600) \div 60,
     S |-> t % 60]

\* ------------------------------------------------------- reading generator
\* random.uniform(a, b) = a + (b - a) * random.random(), with random.random()
\* drawn as k / RandSteps.  k = RandSteps is the end point b, which floating
\* point rounding can produce.
uniform(a, b, k) == a + ((b - a) * k) \div RandSteps

\* Mutant of round2: round(x, 3), one digit too many.
round2_ThreeDigits(x) == x

\* round(x, 2) of x in thousandths: the nearest multiple of 0.01, a tie going
\* to the even hundredth.
round2(x) ==
    LET q == x \div 10
        r == x % 10
    IN  IF r < 5 THEN 10 * q
        ELSE IF r > 5 THEN 10 * (q + 1)
        ELSE IF q % 2 = 0 THEN 10 * q ELSE 10 * (q + 1)

generate_csv_row(t, kv, kt) ==
    [recorded_at |-> strftime("%Y-%m-%d %H:%M:%S", t),
     voltage |-> round2(uniform(VoltLo, VoltHi, kv)),
     temp |-> round2(uniform(TempLo, TempHi, kt))]

\* -------------------------------------------------------------------- CSV
fieldnames == <<"recorded_at", "voltage", "temp", "source_file">>

\* Mutant of CsvRow: the voltage and temp columns change places.
CsvRow_Swapped(data) ==
    <<data["recorded_at"], FloatStr(data["temp"]), FloatStr(data["voltage"]),
      data["source_file"]>>

\* csv.DictWriter.writerow(data): the fields in fieldnames order, as text
CsvRow(data) ==
    <<data["recorded_at"], FloatStr(data["voltage"]), FloatStr(data["temp"]),
      data["source_file"]>>

\* What lines 55-56 write: the header line, then one data line.
CsvLines(data) == <<fieldnames, CsvRow(data)>>

\* The parameters of the INSERT (line 79), in column order.
InsertParams(data) ==
    <<data["recorded_at"], data["voltage"], data["temp"], data["source_file"]>>

\* ------------------------------------------------------------------- Init
\* The process starts in main() with an empty output tree and an empty table.
\* GEN_PERIOD_SEC is unset or one of StartPeriods; the other variables are
\* unset, so the defaults of lines 32-37 apply.
Init ==
    /\ pc = "main"
    /\ env \in {<<>>} \cup {Put(<<>>, "GEN_PERIOD_SEC", p) : p \in StartPeriods}
    /\ period_seconds = 0
    /\ now = 0
    /\ dirs = {}
    /\ fs = <<>>
    /\ locals = <<>>
    /\ txn = <<>>
    /\ db = <<>>
    /\ open_conns = 0
    /\ stdout = <<>>
    /\ stderr = <<>>
    /\ iter = 0
    /\ ticks = 0
    /\ env_changed = FALSE
    /\ csv_written = <<>>
    /\ committed = <<>>
    /\ outcome = ""

\* ------------------------------------------------------------------- main
\* Lines 93-97: parse the period once and print the start-up lines.  A value
\* int() rejects raises ValueError out of main: the process exits.
MainStart ==
    /\ pc = "main"
    /\ LET r == int(get_env("GEN_PERIOD_SEC", <<"3", "0", "0">>))
       IN  IF r.ok
           THEN /\ period_seconds' = r.val
                /\ stdout' = stdout \o <<"Starting telemetry generator",
                                         "Output directory", "Database">>
                /\ pc' = "loop"
           ELSE /\ pc' = "exited"
                /\ UNCHANGED <<period_seconds, stdout>>
    /\ UNCHANGED <<env, now, dirs, fs, locals, txn, db, open_conns, stderr,
                   iter, ticks, env_changed, csv_written,
                   committed, outcome>>

\* Mutant of ReadConfig: the configuration is not read from the environment,
\* the defaults are used.
ReadConfig_Defaults ==
    /\ pc = "loop"
    /\ iter < MaxIter
    /\ iter' = iter + 1
    /\ locals' = [csv_out_dir |-> "/data/csv", pg_host |-> "db",
                  pg_port |-> "5432", pg_user |-> "monouser",
                  pg_password |-> "monopass", pg_database |-> "monolith"]
    /\ outcome' = ""
    /\ pc' = "mkdir"
    /\ UNCHANGED <<env, period_seconds, now, dirs, fs, txn, db, open_conns,
                   stdout, stderr, ticks, env_changed, csv_written,
                   committed>>

\* Lines 99-101 and 32-37: the loop calls generate_and_insert, which reads its
\* configuration from the environment.
ReadConfig ==
    /\ pc = "loop"
    /\ iter < MaxIter
    /\ iter' = iter + 1
    /\ locals' = [csv_out_dir |-> get_env("CSV_OUT_DIR", "/data/csv"),
                  pg_host |-> get_env("PGHOST", "db"),
                  pg_port |-> get_env("PGPORT", "5432"),
                  pg_user |-> get_env("PGUSER", "monouser"),
                  pg_password |-> get_env("PGPASSWORD", "monopass"),
                  pg_database |-> get_env("PGDATABASE", "monolith")]
    /\ outcome' = ""
    /\ pc' = "mkdir"
    /\ UNCHANGED <<env, period_seconds, now, dirs, fs, txn, db, open_conns,
                   stdout, stderr, ticks, env_changed, csv_written,
                   committed>>

\* Line 40, Path(csv_out_dir).mkdir(parents=True, exist_ok=True): the
\* directory exists afterwards.
MkdirOk ==
    /\ pc = "mkdir"
    /\ dirs' = dirs \cup {locals["csv_out_dir"]}
    /\ pc' = "name"
    /\ UNCHANGED <<env, period_seconds, now, fs, locals, txn, db, open_conns,
                   stdout, stderr, iter, ticks, env_changed, csv_written,
                   committed, outcome>>

\* Mutant of MkdirRaise: main has no try around the call, the exception ends
\* the process.
MkdirRaise_Uncaught ==
    /\ pc = "mkdir"
    /\ locals["csv_out_dir"] \notin dirs
    /\ locals' = <<>>
    /\ outcome' = "raised"
    /\ pc' = "exited"
    /\ UNCHANGED <<env, period_seconds, now, dirs, fs, txn, db, open_conns,
                   stdout, stderr, iter, ticks, env_changed, csv_written,
                   committed>>

\* Line 40 raises (the directory cannot be created).  The call is outside
\* every try of generate_and_insert, so the exception leaves the function and
\* is caught by main at lines 102-103.
MkdirRaise ==
    /\ pc = "mkdir"
    /\ locals["csv_out_dir"] \notin dirs
    /\ stderr' = Append(stderr, "Legacy error")
    /\ locals' = <<>>
    /\ outcome' = "raised"
    /\ pc' = "sleep"
    /\ UNCHANGED <<env, period_seconds, now, dirs, fs, txn, db, open_conns,
                   stdout, iter, ticks, env_changed, csv_written,
                   committed>>

\* Lines 43-45: the file is named after the current second.
NameFile ==
    /\ pc = "name"
    /\ LET timestamp == strftime("%Y%m%d_%H%M%S", now)
           filename == [prefix |-> "telemetry_", timestamp |-> timestamp,
                        suffix |-> ".csv"]
       IN  locals' = Put(Put(Put(locals, "timestamp", timestamp),
                             "filename", filename),
                         "filepath", <<locals["csv_out_dir"], filename>>)
    /\ pc' = "generate"
    /\ UNCHANGED <<env, period_seconds, now, dirs, fs, txn, db, open_conns,
                   stdout, stderr, iter, ticks, env_changed, csv_written,
                   committed, outcome>>

\* Mutant of GenerateRow: the reading is tagged with the timestamp instead of
\* the file's name.
GenerateRow_TaggedWithTimestamp ==
    /\ pc = "generate"
    /\ \E k \in {<<0, RandSteps>>, <<RandSteps, 0>>} :
          locals' = Put(locals, "data",
                        Put(generate_csv_row(now, k[1], k[2]), "source_file",
                            locals["timestamp"]))
    /\ pc' = "write"
    /\ UNCHANGED <<env, period_seconds, now, dirs, fs, txn, db, open_conns,
                   stdout, stderr, iter, ticks, env_changed, csv_written,
                   committed, outcome>>

\* The draws of random.random() explored in the loop: the two end points of
\* each interval.  GenSpec below explores more of 0..RandSteps.
MainDraws == {<<0, RandSteps>>, <<RandSteps, 0>>}

\* Lines 48-49: one reading, tagged with the file's name.
GenerateRow ==
    /\ pc = "generate"
    /\ \E k \in MainDraws :
          locals' = Put(locals, "data",
                        Put(generate_csv_row(now, k[1], k[2]), "source_file",
                            locals["filename"]))
    /\ pc' = "write"
    /\ UNCHANGED <<env, period_seconds, now, dirs, fs, txn, db, open_conns,
                   stdout, stderr, iter, ticks, env_changed, csv_written,
                   committed, outcome>>

\* Lines 52-57: open(filepath, 'w') creates or truncates the file, the header
\* and the row are written, the file is closed.
WriteCsvOk ==
    /\ pc = "write"
    /\ fs' = Put(fs, locals["filepath"], CsvLines(locals["data"]))
    /\ stdout' = Append(stdout, "CSV file created")
    /\ csv_written' = Append(csv_written,
                              [iter |-> iter, path |-> locals["filepath"]])
    /\ pc' = "connect"
    /\ UNCHANGED <<env, period_seconds, now, dirs, locals, txn, db, open_conns,
                   stderr, iter, ticks, env_changed,
                   committed, outcome>>

\* Mutant of WriteCsvRaise: the handler prints the error but does not return,
\* so the database step follows.
WriteCsvRaise_NoReturn ==
    /\ pc = "write"
    /\ \E opened \in BOOLEAN, n \in 0..1 :
          IF opened
          THEN fs' = Put(fs, locals["filepath"],
                         SubSeq(CsvLines(locals["data"]), 1, n))
          ELSE n = 0 /\ fs' = fs
    /\ stderr' = Append(stderr, "Error writing CSV")
    /\ outcome' = "csv_error"
    /\ pc' = "connect"
    /\ UNCHANGED <<env, period_seconds, now, dirs, locals, txn, db,
                   open_conns, stdout, iter, ticks, env_changed, csv_written,
                   committed>>

\* Mutant of WriteCsvRaise: the handler swallows the exception and prints
\* nothing.
WriteCsvRaise_Silent ==
    /\ pc = "write"
    /\ \E opened \in BOOLEAN, n \in 0..1 :
          IF opened
          THEN fs' = Put(fs, locals["filepath"],
                         SubSeq(CsvLines(locals["data"]), 1, n))
          ELSE n = 0 /\ fs' = fs
    /\ locals' = <<>>
    /\ outcome' = "csv_error"
    /\ pc' = "sleep"
    /\ UNCHANGED <<env, period_seconds, now, dirs, txn, db, open_conns,
                   stdout, stderr, iter, ticks, env_changed, csv_written,
                   committed>>

\* Lines 52-60 with an exception: either open() fails and the file system is
\* untouched, or the file was opened (created or truncated) and holds only
\* the first n of its two lines when the write fails.  The error is printed
\* and the function returns.
WriteCsvRaise ==
    /\ pc = "write"
    /\ \E opened \in BOOLEAN, n \in 0..1 :
          IF opened
          THEN fs' = Put(fs, locals["filepath"],
                         SubSeq(CsvLines(locals["data"]), 1, n))
          ELSE n = 0 /\ fs' = fs
    /\ stderr' = Append(stderr, "Error writing CSV")
    /\ locals' = <<>>
    /\ outcome' = "csv_error"
    /\ pc' = "sleep"
    /\ UNCHANGED <<env, period_seconds, now, dirs, txn, db, open_conns,
                   stdout, iter, ticks, env_changed, csv_written,
                   committed>>

\* Lines 64-70: psycopg2.connect with the parameters read at lines 33-37.
ConnectOk ==
    /\ pc = "connect"
    /\ locals' = Put(locals, "conn",
                     [host |-> locals["pg_host"], port |-> locals["pg_port"],
                      user |-> locals["pg_user"],
                      password |-> locals["pg_password"],
                      database |-> locals["pg_database"]])
    /\ open_conns' = open_conns + 1
    /\ pc' = "execute"
    /\ UNCHANGED <<env, period_seconds, now, dirs, fs, txn, db, stdout, stderr,
                   iter, ticks, env_changed, csv_written,
                   committed, outcome>>

\* Lines 74-80: the INSERT is executed inside the connection's transaction.
ExecuteOk ==
    /\ pc = "execute"
    /\ txn' = Append(txn, InsertParams(locals["data"]))
    /\ pc' = "commit"
    /\ UNCHANGED <<env, period_seconds, now, dirs, fs, locals, db, open_conns,
                   stdout, stderr, iter, ticks, env_changed, csv_written,
                   committed, outcome>>

\* Line 81: the transaction's rows become rows of telemetry_legacy.
CommitOk ==
    /\ pc = "commit"
    /\ db' = db \o txn
    /\ txn' = <<>>
    /\ committed' = committed \o [i \in 1..Len(txn) |-> iter]
    /\ pc' = "close"
    /\ UNCHANGED <<env, period_seconds, now, dirs, fs, locals, open_conns,
                   stdout, stderr, iter, ticks, env_changed, csv_written,
                   outcome>>

\* Lines 83-84: conn.close(), the success line, and the function returns.
CloseAndReport ==
    /\ pc = "close"
    /\ open_conns' = open_conns - 1
    /\ stdout' = Append(stdout, "Data inserted into database")
    /\ locals' = <<>>
    /\ outcome' = "ok"
    /\ pc' = "sleep"
    /\ UNCHANGED <<env, period_seconds, now, dirs, fs, txn, db, stderr, iter,
                   ticks, env_changed, csv_written,
                   committed>>

\* The message lines 86-89 print for an exception of class e.
DbErrorLine(e) ==
    IF e = "psycopg2.Error" THEN "Database error" ELSE "Unexpected error"

\* Mutant of DbRaise: generate_and_insert has no handler for the exception,
\* which reaches main and is printed there.
DbRaise_Propagates ==
    /\ pc \in {"connect", "execute", "commit"}
    /\ stderr' = Append(stderr, "Legacy error")
    /\ txn' = <<>>
    /\ locals' = <<>>
    /\ outcome' = "raised"
    /\ pc' = "sleep"
    /\ UNCHANGED <<env, period_seconds, now, dirs, fs, db, open_conns, stdout,
                   iter, ticks, env_changed, csv_written,
                   committed>>

\* connect, execute or commit raises: control jumps to the handlers of lines
\* 86-89, which print one line; the function then returns.  conn.close()
\* (line 83) is skipped, so a connection that was opened is never closed by
\* the program (only the interpreter's finalizer can release it, when and if
\* it runs); the work it had not committed is never committed.
DbRaise ==
    /\ pc \in {"connect", "execute", "commit"}
    /\ \E e \in {"psycopg2.Error", "Exception"} :
          stderr' = Append(stderr, DbErrorLine(e))
    /\ txn' = <<>>
    /\ locals' = <<>>
    /\ outcome' = "db_error"
    /\ pc' = "sleep"
    /\ UNCHANGED <<env, period_seconds, now, dirs, fs, db, open_conns, stdout,
                   iter, ticks, env_changed, csv_written,
                   committed>>

\* Line 105, time.sleep(period_seconds): a negative argument raises
\* ValueError.  The call is outside the try of lines 100-103, so the
\* exception leaves main and the process exits.  Otherwise the process
\* resumes at the top of the loop once the period has passed.
Sleep ==
    /\ pc = "sleep"
    /\ IF period_seconds < 0
       THEN pc' = "exited" /\ now' = now
       ELSE pc' = "loop" /\ now' = now + period_seconds
    /\ UNCHANGED <<env, period_seconds, dirs, fs, locals, txn, db, open_conns,
                   stdout, stderr, iter, ticks, env_changed, csv_written,
                   committed, outcome>>

\* ----------------------------------------------------------- surroundings
\* A second of local time passes before one of the two clock reads of an
\* iteration (line 43, line 24).  Time that passes anywhere else is seen by
\* the program only at the next of these reads.
Tick ==
    /\ pc \in {"name", "generate"}
    /\ ticks < MaxTicks
    /\ ticks' = ticks + 1
    /\ now' = now + 1
    /\ UNCHANGED <<pc, env, period_seconds, dirs, fs, locals, txn, db,
                   open_conns, stdout, stderr, iter, env_changed, csv_written,
                   committed, outcome>>

\* A variable of the process environment is given another value between two
\* iterations; this happens at most once.
EnvChange ==
    /\ pc = "sleep"
    /\ ~env_changed
    /\ env_changed' = TRUE
    /\ \E name \in EnvNames : env' = Put(env, name, OtherValue(name))
    /\ UNCHANGED <<pc, period_seconds, now, dirs, fs, locals, txn, db,
                   open_conns, stdout, stderr, iter, ticks, csv_written,
                   committed, outcome>>

Next ==
    \/ MainStart
    \/ ReadConfig
    \/ MkdirOk
    \/ MkdirRaise
    \/ NameFile
    \/ GenerateRow
    \/ WriteCsvOk
    \/ WriteCsvRaise
    \/ ConnectOk
    \/ ExecuteOk
    \/ CommitOk
    \/ CloseAndReport
    \/ DbRaise
    \/ Sleep
    \/ Tick
    \/ EnvChange

Spec == Init /\ [][Next]_vars

\* The reading generator on its own: generate_csv_row applied to the draws
\* next to both ends of 0..RandSteps and to the quarter points.
GenDraws ==
    {k \in 0..RandSteps : \/ k <= EdgeDraws
                          \/ k >= RandSteps - EdgeDraws
                          \/ k % (RandSteps \div 4) = 0}

GenInit ==
    /\ pc = "generate_csv_row"
    /\ env = <<>>
    /\ period_seconds = 0
    /\ now = 0
    /\ dirs = {}
    /\ fs = <<>>
    /\ locals = <<>>
    /\ txn = <<>>
    /\ db = <<>>
    /\ open_conns = 0
    /\ stdout = <<>>
    /\ stderr = <<>>
    /\ iter = 0
    /\ ticks = 0
    /\ env_changed = FALSE
    /\ csv_written = <<>>
    /\ committed = <<>>
    /\ outcome = ""

GenCall ==
    /\ pc = "generate_csv_row"
    /\ \E kv \in GenDraws, kt \in GenDraws :
          locals' = [data |-> generate_csv_row(now, kv, kt)]
    /\ UNCHANGED <<pc, env, period_seconds, now, dirs, fs, txn, db, open_conns,
                   stdout, stderr, iter, ticks, env_changed, csv_written,
                   committed, outcome>>

GenNext == GenCall

GenSpec == GenInit /\ [][GenNext]_vars

\* ================================================================= claims
\* Positions inside generate_and_insert, and those of its database step.
InCall == {"mkdir", "name", "generate", "write", "connect", "execute",
           "commit", "close"}

DbStages == {"connect", "execute", "commit"}

DbLines == {"Database error", "Unexpected error"}

\* A step in which connect, execute or commit raised.
DbFailed == pc \in DbStages /\ pc' \notin DbStages \cup {"close"}

\* A step in which the CSV write step ended without a written file.
CsvFailed == pc = "write" /\ pc' # "write" /\ csv_written' = csv_written

\* A step in which the creation of the output directory failed.
MkdirFailed == pc = "mkdir" /\ pc' \notin {"mkdir", "name"}

\* The step of a failed database step: the CSV file of the iteration is in
\* place and complete, one line goes to stderr, no row is committed, and
\* generate_and_insert returns to main's sleep.
C1_FailureStep ==
    DbFailed =>
        /\ \E line \in DbLines : stderr' = Append(stderr, line)
        /\ locals["filepath"] \in DOMAIN fs
        /\ fs[locals["filepath"]] = CsvLines(locals["data"])
        /\ fs' = fs
        /\ db' = db
        /\ outcome' = "db_error"
        /\ pc' = "sleep"

\* After a failed database step main sleeps and starts the next iteration:
\* nothing more is logged, nothing is retried, the process does not exit.
C1_Resumes ==
    /\ pc' \in {"sleep", "loop"}
    /\ stderr' = stderr
    /\ fs' = fs
    /\ db' = db
    /\ open_conns' = open_conns

\* C1 as stated: when the CSV file was written and the database step fails,
\* the file stays in place, exactly one error is logged, generate_and_insert
\* returns normally, and main sleeps and starts the next iteration without
\* retrying the insert and without terminating.
C1_Original ==
    [][/\ C1_FailureStep
       /\ (pc = "sleep" /\ outcome = "db_error") => C1_Resumes]_vars

\* C1 as amended: the same, for a period that time.sleep accepts (one that is
\* not negative); with a negative period the sleep that follows raises and
\* the process exits.
C1_Amended ==
    [][/\ C1_FailureStep
       /\ (pc = "sleep" /\ outcome = "db_error" /\ period_seconds >= 0)
              => C1_Resumes]_vars

\* The loop is back at its top after an iteration whose database step failed
\* and whose CSV file is still there.
C1_Witness ==
    /\ pc = "loop"
    /\ outcome = "db_error"
    /\ csv_written # <<>>
    /\ csv_written[Len(csv_written)].iter = iter
    /\ csv_written[Len(csv_written)].path \in DOMAIN fs

\* C2: when opening or writing the CSV file fails, an error is logged to
\* stderr, and for the rest of the iteration no connection is opened, no
\* INSERT is executed and no row is committed.
C2_NoDbAfterCsvFailure ==
    [][/\ CsvFailed =>
              /\ stderr' = Append(stderr, "Error writing CSV")
              /\ outcome' = "csv_error"
              /\ pc' = "sleep"
              /\ open_conns' = open_conns /\ txn' = txn /\ db' = db
       /\ outcome = "csv_error" =>
              /\ pc' \notin DbStages \cup {"close"}
              /\ open_conns' = open_conns /\ txn' = txn /\ db' = db]_vars

\* An iteration whose CSV write failed has ended and the loop is at its top,
\* with no connection ever opened and no row committed.
C2_Witness ==
    /\ pc = "loop"
    /\ outcome = "csv_error"
    /\ open_conns = 0
    /\ db = <<>>
    /\ Len(stderr) = 1

\* What the loop does once the period is parsed: it never exits, every way
\* out of generate_and_insert leads to the sleep, and the sleep leads to the
\* next iteration.
C3_LoopStep ==
    /\ pc' # "exited"
    /\ (pc \in InCall /\ pc' \notin InCall) => pc' = "sleep"
    /\ pc = "sleep" => pc' \in {"sleep", "loop"}

\* C3 as stated: for every integer period, once the period is parsed (the
\* start-up lines are printed) the loop never reaches a terminal state.
C3_Original == [][stdout # <<>> => C3_LoopStep]_vars

\* C3 as amended: the same for every period that is not negative (and that
\* time.sleep accepts).
C3_Amended == [][(stdout # <<>> /\ period_seconds >= 0) => C3_LoopStep]_vars

\* The loop is at its top again after an iteration in which an exception
\* escaped generate_and_insert.
C3_Witness == pc = "loop" /\ outcome = "raised" /\ iter >= 1

\* C4 as stated: the successful CSV writes all went to different files.
C4_Claim ==
    \A i, j \in 1..Len(csv_written) :
        i # j => csv_written[i].path # csv_written[j].path

\* A committed row in the text form the CSV writer gives it.
RowAsCsv(r) == <<r[1], FloatStr(r[2]), FloatStr(r[3]), r[4]>>

\* C5: a file holds the header and then at most one data row, whose
\* source_file is the file's own name; the file written by the current call
\* holds the header and exactly one row; the row the call inserts carries
\* the values of that row.
C5_OneRowSameValues ==
    /\ \A p \in DOMAIN fs :
          /\ Len(fs[p]) <= 2
          /\ Len(fs[p]) >= 1 => fs[p][1] = fieldnames
          /\ Len(fs[p]) = 2 => fs[p][2][4] = p[2]
    /\ pc \in DbStages \cup {"close"} =>
          /\ locals["filepath"] \in DOMAIN fs
          /\ Len(fs[locals["filepath"]]) = 2
          /\ \A i \in 1..Len(txn) :
                RowAsCsv(txn[i]) = fs[locals["filepath"]][2]
    /\ pc = "close" =>
          /\ db # <<>>
          /\ RowAsCsv(db[Len(db)]) = fs[locals["filepath"]][2]

\* A row has been committed and its CSV file is on disk; the reading was
\* taken a second after the file was named.
C5_Witness ==
    /\ pc = "close"
    /\ Len(db) = 1
    /\ locals["data"]["recorded_at"].S # locals["timestamp"].S

\* C6 as stated: a failure of the CSV writer step (mkdir, open, write) is
\* logged and generate_and_insert returns normally.
C6_Original ==
    [][(CsvFailed \/ MkdirFailed) =>
          /\ Len(stderr') = Len(stderr) + 1
          /\ outcome' # "raised"
          /\ pc' = "sleep"]_vars

\* C6 as amended: a failure to open or write the file is logged by
\* generate_and_insert, which returns normally; a failure to create the
\* directory is raised to main, which logs it and goes on to the sleep.
C6_Amended ==
    [][/\ CsvFailed =>
              /\ stderr' = Append(stderr, "Error writing CSV")
              /\ outcome' = "csv_error"
              /\ pc' = "sleep"
       /\ MkdirFailed =>
              /\ stderr' = Append(stderr, "Legacy error")
              /\ outcome' = "raised"
              /\ pc' = "sleep"]_vars

\* A write failed after the file was opened: the error is logged and a
\* truncated file is left behind.
C6_Witness ==
    /\ pc = "sleep"
    /\ outcome = "csv_error"
    /\ stderr[Len(stderr)] = "Error writing CSV"
    /\ \E p \in DOMAIN fs : Len(fs[p]) < 2

\* C7: every reading has its voltage in [3.2, 12.6] and its temp in
\* [-50.0, 80.0], each a multiple of 0.01.
C7_InRange ==
    "data" \in DOMAIN locals =>
        /\ VoltLo <= locals["data"].voltage
        /\ locals["data"].voltage <= VoltHi
        /\ locals["data"].voltage % 10 = 0
        /\ TempLo <= locals["data"].temp
        /\ locals["data"].temp <= TempHi
        /\ locals["data"].temp % 10 = 0

\* A reading whose voltage was rounded up to the upper end of its interval
\* and whose temp was rounded to a value that was not drawn.
C7_Witness ==
    /\ "data" \in DOMAIN locals
    /\ locals["data"].voltage = VoltHi
    /\ \E k \in GenDraws :
          /\ uniform(VoltLo, VoltHi, k) < VoltHi
          /\ round2(uniform(VoltLo, VoltHi, k)) = VoltHi
    /\ \E k \in GenDraws :
          /\ uniform(TempLo, TempHi, k) # locals["data"].temp
          /\ round2(uniform(TempLo, TempHi, k)) = locals["data"].temp

\* C8 as stated: every connection is closed by conn.close() before
\* generate_and_insert returns, so none is open outside the database step
\* and at most one is open at any time.
C8_Claim ==
    /\ pc \notin {"execute", "commit", "close"} => open_conns = 0
    /\ open_conns <= 1

\* The configuration generate_and_insert works with is the one the
\* environment holds now.
C9_ConfigFresh ==
    /\ pc \in InCall =>
          /\ locals["csv_out_dir"] = get_env("CSV_OUT_DIR", "/data/csv")
          /\ locals["pg_host"] = get_env("PGHOST", "db")
          /\ locals["pg_port"] = get_env("PGPORT", "5432")
          /\ locals["pg_user"] = get_env("PGUSER", "monouser")
          /\ locals["pg_password"] = get_env("PGPASSWORD", "monopass")
          /\ locals["pg_database"] = get_env("PGDATABASE", "monolith")
    /\ "filepath" \in DOMAIN locals =>
          locals["filepath"][1] = get_env("CSV_OUT_DIR", "/data/csv")
    /\ "conn" \in DOMAIN locals =>
          locals["conn"] = [host |-> get_env("PGHOST", "db"),
                            port |-> get_env("PGPORT", "5432"),
                            user |-> get_env("PGUSER", "monouser"),
                            password |-> get_env("PGPASSWORD", "monopass"),
                            database |-> get_env("PGDATABASE", "monolith")]

\* C9 as stated: the output directory, the database parameters and the
\* period are all re-read on every iteration, so the period an iteration
\* sleeps for is the one the environment holds during that iteration.
C9_Original ==
    /\ C9_ConfigFresh
    /\ pc \in InCall =>
          period_seconds = int(get_env("GEN_PERIOD_SEC", <<"3", "0", "0">>)).val

\* C9 as amended: the output directory and the database parameters are
\* re-read on every iteration; the period is read once, at start-up, and a
\* later change of GEN_PERIOD_SEC does not change the sleep length.
C9_Amended ==
    /\ []C9_ConfigFresh
    /\ [][pc # "main" => period_seconds' = period_seconds]_vars

\* After a change of the environment, an iteration writes into the new
\* output directory.
C9_Witness ==
    /\ env_changed
    /\ pc = "connect"
    /\ locals["filepath"][1] = "/tmp/t"
    /\ locals["filepath"] \in DOMAIN fs

\* C10: every committed row was committed by an iteration that had written
\* its CSV file before, and names that file; no iteration commits two rows;
\* there are never more rows than successful CSV writes; and no connection
\* is open in an iteration that has not written its CSV file.
C10_RowsFollowFiles ==
    /\ Len(committed) = Len(db)
    /\ \A i \in 1..Len(db) :
          \E w \in 1..Len(csv_written) :
              /\ csv_written[w].iter = committed[i]
              /\ csv_written[w].path[2] = db[i][4]
    /\ \A i, j \in 1..Len(committed) : i # j => committed[i] # committed[j]
    /\ Len(db) <= Len(csv_written)
    /\ "conn" \in DOMAIN locals =>
          \E w \in 1..Len(csv_written) :
              /\ csv_written[w].iter = iter
              /\ csv_written[w].path = locals["filepath"]
              /\ locals["filepath"] \in DOMAIN fs

\* Two iterations have each written a file and committed a row.
C10_Witness ==
    /\ Len(db) = 2
    /\ Len(csv_written) = 2
    /\ pc = "sleep"

====
